---- MODULE Spec2Model ----
(***************************************************************************)
(* Model of UnitTester (src/UnitTester.hpp): a test session holding three  *)
(* counters, two output options, an optional filter and a reference to an  *)
(* output stream, with six assertion operations, a summary operation and   *)
(* the UnitTestNamer handle returned by operator().                        *)
(*                                                                         *)
(* The counters are uintmax_t; MaxCalls keeps them far below the point     *)
(* where ++ would wrap, so they are modelled as naturals.                  *)
(***************************************************************************)
EXTENDS Integers, Sequences, FiniteSets, TLC

\* ---------------------------------------------------------------- bounds
MaxCalls == 2
MaxVal == 2

Ids == {"a", "b"}
Values == 0..MaxVal

\* ------------------------------------------------------- colour constants
c_red == "ESC[31m"
c_green == "ESC[32m"
c_reset == "ESC[0m"

\* ------------------------------------------------------ typed values
IntV(n) == [t |-> "int", v |-> n, b |-> FALSE]
BoolV(x) == [t |-> "bool", v |-> 0, b |-> x]

\* operator<< on the stream: a bool prints as a word under boolalpha and as
\* 1/0 otherwise; an int prints as its digits.
Render(x, flags) ==
  IF x.t = "bool"
  THEN IF "boolalpha" \in flags
       THEN (IF x.b THEN "true" ELSE "false")
       ELSE (IF x.b THEN "1" ELSE "0")
  ELSE ToString(x.v)

\* ------------------------------------------------- the unit under test
\* What a call t() does: it returns a value, or throws an object of a type.
\* Types: std::exception, std::logic_error (derived from it) and int (not
\* derived from it).
ThrownTypes == {"logic_error", "int"}

Returns(v) == [kind |-> "ret", val |-> v, type |-> "", what |-> ""]
Throws(ty) == [kind |-> "throw", val |-> IntV(0), type |-> ty,
               what |-> IF ty = "int" THEN "" ELSE "what of " \o ty]

\* The units under test the session is exercised with, two that return and
\* two that throw, and the arguments of expect_value, expect_in_range and
\* expect_exception it is exercised with.
SampleValues == {0, 1}
SampleRanges == {<<0, 0>>, <<0, 1>>}
SampleExcept == {"exception", "logic_error"}
Units == {Returns(IntV(v)) : v \in SampleValues} \cup {Throws(ty) : ty \in ThrownTypes}

\* C++ catch matching: a handler for type h catches an object of type ty
\* when ty is h or publicly derives from h; "..." catches everything.
Derives(ty, h) ==
  \/ ty = h
  \/ h = "exception" /\ ty = "logic_error"

CatchesOnlyTyped(h, ty) == Derives(ty, h)

Catches(h, ty) == h = "..." \/ Derives(ty, h)

\* Index of the first handler of a try block that catches ty, 0 when none
\* does (the exception then leaves the function).
Handler(handlers, ty) ==
  IF \E i \in 1..Len(handlers) : Catches(handlers[i], ty)
  THEN CHOOSE i \in 1..Len(handlers) :
         /\ Catches(handlers[i], ty)
         /\ \A j \in 1..(i - 1) : ~Catches(handlers[j], ty)
  ELSE 0

\* ------------------------------------------------------------- filters
\* filter_ is a std::function<bool(std::string const&)>: empty (set = FALSE)
\* or holding a predicate.  A predicate accepts the ids in accept; one with
\* toggles = TRUE is a stateful callable whose answer is inverted on every
\* other evaluation (phase counts evaluations modulo 2).
NoFilter == [set |-> FALSE, accept |-> {}, toggles |-> FALSE, phase |-> 0]

Pure(accept) == [set |-> TRUE, accept |-> accept, toggles |-> FALSE, phase |-> 0]
Toggling(accept) == [set |-> TRUE, accept |-> accept, toggles |-> TRUE, phase |-> 0]

\* The filters handed to only_if.
FilterInputs == {NoFilter, Pure({"b"}), Toggling({"a"})}

\* One evaluation filter_(id): the answer and the callable's next state.
FilterCall(f, id) ==
  [ans |-> IF f.toggles /\ f.phase = 1 THEN id \notin f.accept
                                       ELSE id \in f.accept,
   f |-> IF f.toggles THEN [f EXCEPT !.phase = 1 - @] ELSE f]

\* ------------------------------------------------------------- state
VARIABLES
  count_pass_, count_fail_, count_skip_,   \* the three counters
  color_output_, hide_pass_,               \* output options
  filter_,                                 \* the active filter
  out_flags,                               \* out_.flags()
  written,                                 \* what the last operation wrote to out_
  calls,                                   \* history: assertion calls made so far
  last,                                    \* history: the last operation and its result
  installed                                \* history: the argument of the last only_if
                                           \* (NoFilter at construction and after always)

vars == <<count_pass_, count_fail_, count_skip_, color_output_, hide_pass_,
          filter_, out_flags, written, calls, last, installed>>

FmtFlags == {"boolalpha", "hex"}

\* The session as a record, and an operation in progress (frame): the
\* session, the text written so far, the value returned, whether t() was
\* called, the answers filter_ gave, and whether an exception left the call.
Session ==
  [count_pass_ |-> count_pass_, count_fail_ |-> count_fail_,
   count_skip_ |-> count_skip_, color_output_ |-> color_output_,
   hide_pass_ |-> hide_pass_, filter_ |-> filter_, out_flags |-> out_flags]

Begin(s) ==
  [s |-> s, out |-> <<>>, ret |-> FALSE, invoked |-> FALSE,
   answers |-> <<>>, escaped |-> FALSE]

\* ------------------------------------------------------ private helpers
red_(s) == IF s.color_output_ THEN c_red ELSE ""
green_(s) == IF s.color_output_ THEN c_green ELSE ""
reset_(s) == IF s.color_output_ THEN c_reset ELSE ""

Write(r, line) == [r EXCEPT !.out = Append(@, line)]

pass_(r, id) ==
  LET r1 == [r EXCEPT !.s.count_pass_ = @ + 1]
  IN IF ~r1.s.hide_pass_
     THEN Write(r1, <<green_(r1.s), "PASS", reset_(r1.s), id>>)
     ELSE r1

fail_NoCount(r, id) ==
  Write(r, <<red_(r.s), "FAIL", reset_(r.s), id>>)

fail_(r, id) ==
  Write([r EXCEPT !.s.count_fail_ = @ + 1],
        <<red_(r.s), "FAIL", reset_(r.s), id>>)

\* local_iostream_flags: the constructor reads the flags, the destructor
\* puts them back.
local_iostream_flags(r) == r.s.out_flags

local_iostream_flags_Forget(r, f_) == r

local_iostream_flags_dtor(r, f_) == [r EXCEPT !.s.out_flags = f_]

\* `filter_ && !filter_(id)`: TRUE when the call is to be skipped; filter_
\* is evaluated only when it is not empty.
FilterRejects(r, id) ==
  IF r.s.filter_.set
  THEN LET c == FilterCall(r.s.filter_, id)
       IN [rej |-> ~c.ans,
           r |-> [r EXCEPT !.s.filter_ = c.f, !.answers = Append(@, c.ans)]]
  ELSE [rej |-> FALSE, r |-> r]

\* `{ ++count_skip_; return false; }`
SkipReturnsTrue(r) == [r EXCEPT !.s.count_skip_ = @ + 1, !.ret = TRUE]

Skip(r) == [r EXCEPT !.s.count_skip_ = @ + 1, !.ret = FALSE]

Return(r, v) == [r EXCEPT !.ret = v]
Invoke(r) == [r EXCEPT !.invoked = TRUE]
Escape(r) == [r EXCEPT !.escaped = TRUE]

\* ------------------------------------------------- assertion operations
\* Each takes the operation in progress r, the id, the expectation and what
\* t() does, and gives the operation when it returns.

expect_value(r, id, value, t) ==
  LET c == FilterRejects(r, id) IN
  IF c.rej THEN Skip(c.r)
  ELSE
    LET r1 == Invoke(c.r)
        fl == r1.s.out_flags
    IN IF t.kind = "ret"
       THEN LET test_value == t.val
                result == (test_value = value)
            IN IF result
               THEN Return(pass_(r1, id), TRUE)
               ELSE Return(Write(fail_(r1, id),
                                 <<"  expected value ", Render(value, fl),
                                   ", found ", Render(test_value, fl),
                                   " instead.">>), FALSE)
       ELSE LET h == Handler(<<"exception", "...">>, t.type)
            IN CASE h = 1 ->
                      Return(Write(fail_(r1, id),
                                   <<"  expected value ", Render(value, fl),
                                     ", got exception: ", t.what>>), FALSE)
                 [] h = 2 ->
                      Return(Write(fail_(r1, id),
                                   <<"  expected value ", Render(value, fl),
                                     ", got exception not derived from std::exception">>),
                             FALSE)
                 [] OTHER -> Escape(r1)

\* The lambda `[&t] { return !!t(); }` that expect_true and expect_false
\* hand to expect_value: a returned value is coerced to bool, a throw
\* passes through.
NotNot(t) ==
  IF t.kind = "ret"
  THEN [kind |-> "ret", val |-> BoolV(t.val.v # 0), type |-> "", what |-> ""]
  ELSE t

expect_true(r, id, t) ==
  LET c == FilterRejects(r, id) IN
  IF c.rej THEN Skip(c.r)
  ELSE LET f == local_iostream_flags(c.r)
           r1 == [c.r EXCEPT !.s.out_flags = @ \cup {"boolalpha"}]
       IN local_iostream_flags_dtor(expect_value(r1, id, BoolV(TRUE), NotNot(t)), f)

expect_false(r, id, t) ==
  LET c == FilterRejects(r, id) IN
  IF c.rej THEN Skip(c.r)
  ELSE LET f == local_iostream_flags(c.r)
           r1 == [c.r EXCEPT !.s.out_flags = @ \cup {"boolalpha"}]
       IN local_iostream_flags_dtor(expect_value(r1, id, BoolV(FALSE), NotNot(t)), f)

\* `min <= test_value && test_value <= max`
InRangeExclusive(min, test_value, max) == min.v < test_value.v /\ test_value.v < max.v

InRange(min, test_value, max) == min.v <= test_value.v /\ test_value.v <= max.v

expect_in_range(r, id, min, max, t) ==
  LET c == FilterRejects(r, id) IN
  IF c.rej THEN Skip(c.r)
  ELSE
    LET r1 == Invoke(c.r)
        fl == r1.s.out_flags
    IN IF t.kind = "ret"
       THEN LET test_value == t.val
                result == InRange(min, test_value, max)
            IN IF result
               THEN Return(pass_(r1, id), TRUE)
               ELSE Return(Write(fail_(r1, id),
                                 <<"  value ", Render(test_value, fl),
                                   " is not in expected range [", Render(min, fl),
                                   ", ", Render(max, fl), "]">>), FALSE)
       ELSE LET h == Handler(<<"exception", "...">>, t.type)
            IN CASE h = 1 ->
                      Return(Write(fail_(r1, id),
                                   <<"  expected a value in [", Render(min, fl),
                                     ", ", Render(max, fl),
                                     "], got exception: ", t.what>>), FALSE)
                 [] h = 2 ->
                      Return(Write(fail_(r1, id),
                                   <<"  expected a value in [", Render(min, fl),
                                     ", ", Render(max, fl),
                                     "], got exception not derived from std::exception">>),
                             FALSE)
                 [] OTHER -> Escape(r1)

expect_any_exception(r, id, t) ==
  LET c == FilterRejects(r, id) IN
  IF c.rej THEN Skip(c.r)
  ELSE
    LET r1 == Invoke(c.r)
        h == IF t.kind = "throw" THEN Handler(<<"...">>, t.type) ELSE 0
        exception_happened == (h = 1)
    IN IF t.kind = "throw" /\ h = 0
       THEN Escape(r1)
       ELSE IF exception_happened
            THEN Return(pass_(r1, id), exception_happened)
            ELSE Return(Write(fail_(r1, id),
                              <<"  expected exception was not thrown.">>),
                        exception_happened)

\* The if-chain of expect_exception after its try block.
expect_exception_report_Swapped(r, id, exception_happened, other_exception_happened) ==
  IF exception_happened
  THEN Return(pass_(r, id), exception_happened)
  ELSE IF other_exception_happened
       THEN Return(Write(fail_(r, id),
                         <<"  expected exception was not thrown.">>),
                   exception_happened)
       ELSE Return(Write(fail_(r, id),
                         <<"  an exception happened but not of the correct type.">>),
                   exception_happened)

expect_exception_report(r, id, exception_happened, other_exception_happened) ==
  IF exception_happened
  THEN Return(pass_(r, id), exception_happened)
  ELSE IF other_exception_happened
       THEN Return(Write(fail_(r, id),
                         <<"  an exception happened but not of the correct type.">>),
                   exception_happened)
       ELSE Return(Write(fail_(r, id),
                         <<"  expected exception was not thrown.">>),
                   exception_happened)

expect_exception(r, Except, id, t) ==
  LET c == FilterRejects(r, id) IN
  IF c.rej THEN Skip(c.r)
  ELSE
    LET r1 == Invoke(c.r)
        h == IF t.kind = "throw" THEN Handler(<<Except, "...">>, t.type) ELSE 0
        exception_happened == (h = 1)
        other_exception_happened == (h = 2)
    IN IF t.kind = "throw" /\ h = 0
       THEN Escape(r1)
       ELSE expect_exception_report(r1, id, exception_happened,
                                    other_exception_happened)

\* ---------------------------------------------------------- summary
summary_AlwaysFailed(r) ==
  LET fl == r.s.out_flags
      r1 == IF r.s.count_skip_ > 0
            THEN Write(r, <<Render(IntV(r.s.count_skip_), fl), " tests skipped.">>)
            ELSE r
      r2 == Write(r1, <<Render(IntV(r.s.count_pass_), fl), " tests passed.">>)
  IN Write(r2, <<Render(IntV(r.s.count_fail_), fl), " tests ",
                 red_(r.s), "FAILED !", reset_(r.s)>>)

summary(r) ==
  LET fl == r.s.out_flags
      r1 == IF r.s.count_skip_ > 0
            THEN Write(r, <<Render(IntV(r.s.count_skip_), fl), " tests skipped.">>)
            ELSE r
      r2 == Write(r1, <<Render(IntV(r.s.count_pass_), fl), " tests passed.">>)
  IN IF r.s.count_fail_ > 0
     THEN Write(r2, <<Render(IntV(r.s.count_fail_), fl), " tests ",
                      red_(r.s), "FAILED !", reset_(r.s)>>)
     ELSE r2

\* ---------------------------------------------------- configuration
color_output(r, c) == [r EXCEPT !.s.color_output_ = c]
hide_pass(r) == [r EXCEPT !.s.hide_pass_ = TRUE]
show_pass(r) == [r EXCEPT !.s.hide_pass_ = FALSE]

only_if_KeepFirst(r, f) ==
  IF r.s.filter_.set THEN r ELSE [r EXCEPT !.s.filter_ = f]

only_if(r, f) == [r EXCEPT !.s.filter_ = f]

\* always() swaps filter_ with an empty std::function.
always(r) == [r EXCEPT !.s.filter_ = NoFilter]

\* ----------------------------------------------------- UnitTestNamer
\* operator()(id) builds a handle from the session and a copy of the id;
\* each member forwards to the session with the id first.
UnitTestNamer(t, i) == [tester |-> t, id |-> i]

Namer_expect_true(n, t) == expect_true(Begin(n.tester), n.id, t)

Namer_expect_false_Wrong(n, t) == expect_true(Begin(n.tester), n.id, t)

Namer_expect_false(n, t) == expect_false(Begin(n.tester), n.id, t)

Namer_expect_value(n, value, t) == expect_value(Begin(n.tester), n.id, value, t)

Namer_expect_in_range(n, min, max, t) ==
  expect_in_range(Begin(n.tester), n.id, min, max, t)

Namer_expect_any_exception(n, t) == expect_any_exception(Begin(n.tester), n.id, t)

Namer_expect_exception(n, Except, t) ==
  expect_exception(Begin(n.tester), Except, n.id, t)

\* ------------------------------------------------------------ actions
\* The record kept in `last` for an operation: which one, how it was
\* called, its arguments, and what happened.
Op(op, via, id, t, value, min, max, Except) ==
  [op |-> op, via |-> via, id |-> id, t |-> t, value |-> value,
   min |-> min, max |-> max, Except |-> Except, f |-> NoFilter]

NoArgs(op) == Op(op, "direct", "", Returns(IntV(0)), IntV(0), IntV(0), IntV(0), "")

Result(r) ==
  [ret |-> r.ret, invoked |-> r.invoked, answers |-> r.answers,
   escaped |-> r.escaped]

\* The session and the stream after the operation r.
Commit(r, o, isAssertion) ==
  /\ count_pass_' = r.s.count_pass_
  /\ count_fail_' = r.s.count_fail_
  /\ count_skip_' = r.s.count_skip_
  /\ color_output_' = r.s.color_output_
  /\ hide_pass_' = r.s.hide_pass_
  /\ filter_' = r.s.filter_
  /\ out_flags' = r.s.out_flags
  /\ written' = r.out
  /\ calls' = IF isAssertion THEN calls + 1 ELSE calls
  /\ last' = [o |-> o, res |-> Result(r)]
  /\ installed' = CASE o.op = "only_if" -> o.f
                    [] o.op = "always" -> NoFilter
                    [] OTHER -> installed

Init ==
  /\ count_pass_ = 0
  /\ count_fail_ = 0
  /\ count_skip_ = 0
  /\ color_output_ = TRUE
  /\ hide_pass_ = FALSE
  /\ filter_ = NoFilter
  /\ out_flags \in {{"hex"}, {"boolalpha"}}
  /\ written = <<>>
  /\ calls = 0
  /\ last = [o |-> NoArgs("UnitTester"), res |-> Result(Begin(Session))]
  /\ installed = NoFilter

ExpectTrue ==
  \E id \in Ids, t \in Units :
    /\ calls < MaxCalls
    /\ Commit(expect_true(Begin(Session), id, t),
              Op("expect_true", "direct", id, t, IntV(0), IntV(0), IntV(0), ""), TRUE)

ExpectFalse ==
  \E id \in Ids, t \in Units :
    /\ calls < MaxCalls
    /\ Commit(expect_false(Begin(Session), id, t),
              Op("expect_false", "direct", id, t, IntV(0), IntV(0), IntV(0), ""), TRUE)

ExpectValue ==
  \E id \in Ids, t \in Units, value \in SampleValues :
    /\ calls < MaxCalls
    /\ Commit(expect_value(Begin(Session), id, IntV(value), t),
              Op("expect_value", "direct", id, t, IntV(value), IntV(0), IntV(0), ""), TRUE)

ExpectInRange ==
  \E id \in Ids, t \in Units, mm \in SampleRanges :
    /\ calls < MaxCalls
    /\ Commit(expect_in_range(Begin(Session), id, IntV(mm[1]), IntV(mm[2]), t),
              Op("expect_in_range", "direct", id, t, IntV(0), IntV(mm[1]), IntV(mm[2]), ""), TRUE)

ExpectAnyException ==
  \E id \in Ids, t \in Units :
    /\ calls < MaxCalls
    /\ Commit(expect_any_exception(Begin(Session), id, t),
              Op("expect_any_exception", "direct", id, t, IntV(0), IntV(0), IntV(0), ""), TRUE)

ExpectException ==
  \E id \in Ids, t \in Units, Except \in SampleExcept :
    /\ calls < MaxCalls
    /\ Commit(expect_exception(Begin(Session), Except, id, t),
              Op("expect_exception", "direct", id, t, IntV(0), IntV(0), IntV(0), Except), TRUE)

NamedExpectTrue ==
  \E id \in Ids, t \in Units :
    /\ calls < MaxCalls
    /\ Commit(Namer_expect_true(UnitTestNamer(Session, id), t),
              Op("expect_true", "handle", id, t, IntV(0), IntV(0), IntV(0), ""), TRUE)

NamedExpectFalse ==
  \E id \in Ids, t \in Units :
    /\ calls < MaxCalls
    /\ Commit(Namer_expect_false(UnitTestNamer(Session, id), t),
              Op("expect_false", "handle", id, t, IntV(0), IntV(0), IntV(0), ""), TRUE)

NamedExpectValue ==
  \E id \in Ids, t \in Units, value \in SampleValues :
    /\ calls < MaxCalls
    /\ Commit(Namer_expect_value(UnitTestNamer(Session, id), IntV(value), t),
              Op("expect_value", "handle", id, t, IntV(value), IntV(0), IntV(0), ""), TRUE)

NamedExpectInRange ==
  \E id \in Ids, t \in Units, mm \in SampleRanges :
    /\ calls < MaxCalls
    /\ Commit(Namer_expect_in_range(UnitTestNamer(Session, id), IntV(mm[1]), IntV(mm[2]), t),
              Op("expect_in_range", "handle", id, t, IntV(0), IntV(mm[1]), IntV(mm[2]), ""), TRUE)

NamedExpectAnyException ==
  \E id \in Ids, t \in Units :
    /\ calls < MaxCalls
    /\ Commit(Namer_expect_any_exception(UnitTestNamer(Session, id), t),
              Op("expect_any_exception", "handle", id, t, IntV(0), IntV(0), IntV(0), ""), TRUE)

NamedExpectException ==
  \E id \in Ids, t \in Units, Except \in SampleExcept :
    /\ calls < MaxCalls
    /\ Commit(Namer_expect_exception(UnitTestNamer(Session, id), Except, t),
              Op("expect_exception", "handle", id, t, IntV(0), IntV(0), IntV(0), Except), TRUE)

Summary == Commit(summary(Begin(Session)), NoArgs("summary"), FALSE)

ColorOutput ==
  \E c \in BOOLEAN :
    Commit(color_output(Begin(Session), c), NoArgs("color_output"), FALSE)

HidePass == Commit(hide_pass(Begin(Session)), NoArgs("hide_pass"), FALSE)

ShowPass == Commit(show_pass(Begin(Session)), NoArgs("show_pass"), FALSE)

OnlyIf ==
  \E f \in FilterInputs :
    Commit(only_if(Begin(Session), f), [NoArgs("only_if") EXCEPT !.f = f], FALSE)

Always == Commit(always(Begin(Session)), NoArgs("always"), FALSE)

Next ==
  \/ ExpectTrue
  \/ ExpectFalse
  \/ ExpectValue
  \/ ExpectInRange
  \/ ExpectAnyException
  \/ ExpectException
  \/ NamedExpectTrue
  \/ NamedExpectFalse
  \/ NamedExpectValue
  \/ NamedExpectInRange
  \/ NamedExpectAnyException
  \/ NamedExpectException
  \/ Summary
  \/ ColorOutput
  \/ HidePass
  \/ ShowPass
  \/ OnlyIf
  \/ Always

Spec == Init /\ [][Next]_vars

\* A session exercised with expect_in_range over every min, max and
\* returned value of Values.
ExpectInRangeReturning ==
  \E id \in Ids, min \in Values, max \in Values, v \in Values :
    /\ calls < MaxCalls
    /\ Commit(expect_in_range(Begin(Session), id, IntV(min), IntV(max), Returns(IntV(v))),
              Op("expect_in_range", "direct", id, Returns(IntV(v)), IntV(0),
                 IntV(min), IntV(max), ""), TRUE)

NextRange ==
  \/ ExpectInRangeReturning
  \/ OnlyIf
  \/ Always
  \/ HidePass
  \/ ShowPass

SpecRange == Init /\ [][NextRange]_vars

\* ======================================================== properties
AssertionStep == calls' = calls + 1

NotSkipped(res) == \A i \in DOMAIN res.answers : res.answers[i]

Counted(dp, df, ds) ==
  /\ count_pass_' = count_pass_ + dp
  /\ count_fail_' = count_fail_ + df
  /\ count_skip_' = count_skip_ + ds

FailLine(id) == <<red_(Session), "FAIL", reset_(Session), id>>

\* C1: pass_count + fail_count + skip_count is the number of assertion
\* calls made so far, and every assertion call raises exactly one of the
\* three counters by one and leaves the other two alone.
C1_CountersSumToCalls ==
  /\ count_pass_ + count_fail_ + count_skip_ = calls
  /\ [][/\ count_pass_' + count_fail_' + count_skip_' = calls'
        /\ AssertionStep =>
             \/ Counted(1, 0, 0)
             \/ Counted(0, 1, 0)
             \/ Counted(0, 0, 1)]_vars

C1_Witness ==
  /\ calls = 2
  /\ count_fail_ = 1
  /\ count_skip_ = 1
  /\ last.o.t.kind = "throw"
  /\ last.res.invoked

\* C2: when the filter is set and answers false for the id, the call raises
\* skip_count by one, leaves pass_count and fail_count alone, writes
\* nothing, does not call the unit under test and returns false.
C2_RejectedIsSkipped ==
  [][AssertionStep /\ filter_.set
       /\ (\E i \in DOMAIN last'.res.answers : ~last'.res.answers[i])
     => /\ Counted(0, 0, 1)
        /\ written' = <<>>
        /\ ~last'.res.invoked
        /\ ~last'.res.escaped
        /\ last'.res.ret = FALSE]_vars

C2_Witness ==
  /\ last.o.op = "expect_exception"
  /\ last.res.answers = <<FALSE>>
  /\ last.o.t.kind = "throw"
  /\ count_skip_ = 1
  /\ written = <<>>

\* C3: when no filter is set, or the filter evaluated at the start of the
\* call answers true for the id, the unit under test is called and the call
\* raises pass_count or fail_count, never skip_count, whatever the filter
\* would answer on a later evaluation.
C3_AcceptedProceeds ==
  [][AssertionStep /\ (filter_.set => last'.res.answers[1])
     => /\ last'.res.invoked
        /\ count_skip_' = count_skip_
        /\ count_pass_' + count_fail_' = count_pass_ + count_fail_ + 1]_vars

\* C4: a fault thrown by the unit under test in a call of expect_value,
\* expect_in_range, expect_true or expect_false that is not skipped does
\* not leave the call: the call returns false, raises fail_count by one,
\* and writes a FAIL line and then one diagnostic line that ends with the
\* fault's message or with the text for faults not derived from
\* std::exception.
C4_FaultIsRecordedAsFail ==
  [][AssertionStep
       /\ last'.o.op \in {"expect_value", "expect_in_range", "expect_true", "expect_false"}
       /\ last'.o.t.kind = "throw"
       /\ NotSkipped(last'.res)
     => /\ ~last'.res.escaped
        /\ last'.res.ret = FALSE
        /\ Counted(0, 1, 0)
        /\ Len(written') = 2
        /\ written'[1] = FailLine(last'.o.id)
        /\ LET d == written'[2]
               tail == d[Len(d)]
           IN IF last'.o.t.type \in {"exception", "logic_error"}
              THEN /\ tail = last'.o.t.what
                   /\ d[Len(d) - 1] \in {", got exception: ", "], got exception: "}
              ELSE tail \in {", got exception not derived from std::exception",
                             "], got exception not derived from std::exception"}]_vars

C4_Witness ==
  /\ last.o.op = "expect_true"
  /\ last.o.t.type = "int"
  /\ last.res.invoked
  /\ ~last.res.escaped
  /\ Len(written) = 2
  /\ count_fail_ = 1

\* C5: a call of expect_exception<Except> that is not skipped ends in one
\* of three ways and no fault leaves it: a fault of type Except (or derived
\* from it) gives PASS and true; a fault of another type gives FAIL, the
\* wrong-type diagnostic and false; no fault gives FAIL, the not-thrown
\* diagnostic and false.
C5_ExpectExceptionOutcomes ==
  [][AssertionStep /\ last'.o.op = "expect_exception" /\ NotSkipped(last'.res)
     => LET t == last'.o.t
            matches == \/ t.type = last'.o.Except
                       \/ last'.o.Except = "exception" /\ t.type = "logic_error"
        IN /\ ~last'.res.escaped
           /\ last'.res.invoked
           /\ CASE t.kind = "throw" /\ matches ->
                     /\ last'.res.ret = TRUE
                     /\ Counted(1, 0, 0)
                     /\ \A i \in DOMAIN written' : written'[i][2] = "PASS"
                [] t.kind = "throw" /\ ~matches ->
                     /\ last'.res.ret = FALSE
                     /\ Counted(0, 1, 0)
                     /\ written' = <<FailLine(last'.o.id),
                                     <<"  an exception happened but not of the correct type.">> >>
                [] OTHER ->
                     /\ last'.res.ret = FALSE
                     /\ Counted(0, 1, 0)
                     /\ written' = <<FailLine(last'.o.id),
                                     <<"  expected exception was not thrown.">> >>]_vars

C5_Witness ==
  /\ last.o.op = "expect_exception"
  /\ last.o.Except = "logic_error"
  /\ last.o.t.type = "int"
  /\ last.res.ret = FALSE
  /\ Len(written) = 2

\* C6: the stream's formatting flags after an assertion call are its flags
\* before the call, on every way out of the call.
C6_FlagsRestored ==
  [][AssertionStep => out_flags' = out_flags]_vars

C6_Witness ==
  /\ last.o.op = "expect_true"
  /\ last.res.invoked
  /\ ~last.res.ret
  /\ Len(written) = 2
  /\ written[2] = <<"  expected value ", "true", ", found ", "false", " instead.">>
  /\ out_flags = {"hex"}

\* C7: summary writes a skipped line exactly when skip_count > 0, then
\* always a passed line, then a FAILED line exactly when fail_count > 0,
\* each with the current value of its counter, and changes no counter.
C7_SummaryLines ==
  [][last'.o.op = "summary"
     => LET w == written'
            nskip == IF count_skip_ > 0 THEN 1 ELSE 0
            nfail == IF count_fail_ > 0 THEN 1 ELSE 0
        IN /\ Counted(0, 0, 0)
           /\ Len(w) = nskip + 1 + nfail
           /\ nskip = 1 => w[1] = <<ToString(count_skip_), " tests skipped.">>
           /\ w[nskip + 1] = <<ToString(count_pass_), " tests passed.">>
           /\ nfail = 1 =>
                /\ Len(w[nskip + 2]) = 5
                /\ w[nskip + 2][1] = ToString(count_fail_)
                /\ w[nskip + 2][2] = " tests "
                /\ w[nskip + 2][4] = "FAILED !"]_vars

C7_Witness ==
  /\ last.o.op = "summary"
  /\ count_skip_ = 1
  /\ count_fail_ = 1
  /\ Len(written) = 3

\* The direct call session.expect_X(id, args, t) for a recorded operation.
DirectCall(s, o) ==
  CASE o.op = "expect_true" -> expect_true(Begin(s), o.id, o.t)
    [] o.op = "expect_false" -> expect_false(Begin(s), o.id, o.t)
    [] o.op = "expect_value" -> expect_value(Begin(s), o.id, o.value, o.t)
    [] o.op = "expect_in_range" -> expect_in_range(Begin(s), o.id, o.min, o.max, o.t)
    [] o.op = "expect_any_exception" -> expect_any_exception(Begin(s), o.id, o.t)
    [] o.op = "expect_exception" -> expect_exception(Begin(s), o.Except, o.id, o.t)

\* C8: an assertion made through the handle, session(id).expect_X(args, t),
\* returns what session.expect_X(id, args, t) returns, leaves the session
\* as that call leaves it, and writes what that call writes.
C8_HandleEqualsDirect ==
  [][AssertionStep /\ last'.o.via = "handle"
     => LET d == DirectCall(Session, last'.o)
        IN /\ Session' = d.s
           /\ written' = d.out
           /\ last'.res = Result(d)]_vars

C8_Witness ==
  /\ last.o.via = "handle"
  /\ last.o.op = "expect_false"
  /\ last.res.ret = TRUE
  /\ count_pass_ = 1

\* C9: the session has one active filter, the argument of the last only_if
\* (none at construction and after always): with none no assertion is
\* skipped, with a predicate that always answers the same an assertion is
\* skipped exactly when that predicate rejects its id, and only_if, always,
\* color_output, hide_pass and show_pass change no counter.
C9_OneActiveFilter ==
  [][/\ [filter_' EXCEPT !.phase = 0] = installed'
     /\ AssertionStep /\ ~installed.set => count_skip_' = count_skip_
     /\ AssertionStep /\ installed.set /\ ~installed.toggles =>
          (count_skip_' = count_skip_ + 1 <=> last'.o.id \notin installed.accept)
     /\ last'.o.op \in {"only_if", "always", "color_output", "hide_pass", "show_pass"}
          => Counted(0, 0, 0)]_vars

C9_Witness ==
  /\ installed = Pure({"b"})
  /\ last.o.op = "expect_value"
  /\ last.o.id = "a"
  /\ last.res.answers = <<FALSE>>
  /\ count_skip_ = 1
  /\ count_pass_ = 1

\* C10: a call of expect_in_range(id, min, max, t) that is not skipped and
\* whose t returns r gives PASS and true exactly when min <= r and r <= max,
\* and FAIL and false otherwise; with min > max nothing passes.
C10_InRangeInclusive ==
  [][AssertionStep /\ last'.o.op = "expect_in_range" /\ last'.o.t.kind = "ret"
       /\ NotSkipped(last'.res)
     => LET min == last'.o.min.v
            max == last'.o.max.v
            r == last'.o.t.val.v
        IN /\ last'.res.ret <=> (min <= r /\ r <= max)
           /\ last'.res.ret => Counted(1, 0, 0)
           /\ ~last'.res.ret => Counted(0, 1, 0)
           /\ min > max => ~last'.res.ret]_vars

C10_Witness ==
  /\ last.o.op = "expect_in_range"
  /\ last.o.min.v = 1
  /\ last.o.max.v = 2
  /\ last.o.t.val.v = 2
  /\ last.res.ret = TRUE
  /\ count_pass_ = 1

====
